---- MODULE Spec2Model ----
\* Model of src/src/models/matrix.rs: the flat Matrix<T> buffer, the
\* DistanceMatrixBuilder / DistanceMatrix pair, the CorrelationMatrix derived
\* from it, and the MatrixProvider that builds both.
\*
\* Numbers.  An f64 is modelled in fixed point: the integer v stands for the
\* value v / Unit.  sqrt rounds to the nearest representable value, as the
\* IEEE operation does, and f64::round rounds to the nearest multiple of Unit
\* with ties away from zero.  A usize is a natural number; subtraction that
\* goes below zero either panics (overflow checks on) or wraps (checks off).
EXTENDS Integers, Naturals, Sequences, FiniteSets, TLC

VARIABLES
    pc,              \* which construction step has been reached
    overflow_checks, \* build profile: TRUE = arithmetic overflow panics
    nodes,           \* the coordinates of the problem's nodes, in node order
    builder,         \* DistanceMatrixBuilder
    distance,        \* DistanceMatrix, or None before build
    correlation,     \* CorrelationMatrix, or None before construction
    config,          \* Config handed to MatrixProvider::new, or None
    mat,             \* a free-standing Matrix<usize> (FlatBuffer)
    last_set,        \* the last Matrix::set call made on mat, or None
    sets             \* the number of Matrix::set calls made on mat

vars == <<pc, overflow_checks, nodes, builder, distance, correlation, config, mat, last_set, sets>>

-----------------------------------------------------------------------------
\* Bounds of the model

Unit == 10          \* fixed-point resolution: Unit quanta per 1.0
MaxN == 4           \* largest number of locations, all distinct
MaxRepeat == 3      \* largest number of locations when points may repeat
MaxDim == 3         \* largest rows / cols of the free-standing Matrix
MaxVal == 2         \* largest value written by Matrix::set
MaxSets == 2        \* largest number of Matrix::set calls on the free-standing Matrix
MaxLimit == 5       \* largest precompute_distance_size_limit

\* Program constants
CORRELATION_LIMIT == 100
USIZE_MAX == 2147483647  \* stands for usize::MAX (the largest integer TLC represents)

None == [tag |-> "None"]
Some(v) == [tag |-> "Some", val |-> v]

Min(a, b) == IF a <= b THEN a ELSE b

Coord(lat, lng) == [lat |-> lat, lng |-> lng]

\* The four points of the documented scenario, (0,0) (0,3) (4,0) (4,3), and a
\* fifth one at (0.8, 3.0), whose distance to the origin is 3.1.
Points ==
    { Coord(0, 0), Coord(0, 3 * Unit), Coord(4 * Unit, 0),
      Coord(4 * Unit, 3 * Unit), Coord(Unit - 2, 3 * Unit) }

\* every list of at most MaxRepeat points, and every list of at most MaxN
\* distinct points
LocationLists ==
    UNION { [1..n -> Points] : n \in 0..MaxRepeat } \cup
    UNION { { l \in [1..n -> Points] : \A a, b \in 1..n : a # b => l[a] # l[b] } :
            n \in 0..MaxN }

-----------------------------------------------------------------------------
\* Matrix<T>

Matrix_new(rows, cols) ==
    [rows |-> rows, cols |-> cols, cells |-> [k \in 1..(rows * cols) |-> 0]]

Offset_NoStride(m, row, col) == row + col

\* linear row-major offset of (row, col)
Offset(m, row, col) == row * m.cols + col

Matrix_get(m, row, col) == m.cells[Offset(m, row, col) + 1]

Matrix_set(m, row, col, value) ==
    [m EXCEPT !.cells[Offset(m, row, col) + 1] = value]

Matrix_slice(m, row, col, number) ==
    [k \in 1..number |-> m.cells[Offset(m, row, col) + k]]

\* the loops of Matrix::init from (row, col) on
RECURSIVE InitLoop(_, _, _, _)
InitLoop(matrix, init, row, col) ==
    IF row >= matrix.rows THEN matrix
    ELSE IF col >= matrix.cols THEN InitLoop(matrix, init, row + 1, 0)
    ELSE InitLoop(Matrix_set(matrix, row, col, init), init, row, col + 1)

Matrix_init(init, rows, cols) == InitLoop(Matrix_new(rows, cols), init, 0, 0)

-----------------------------------------------------------------------------
\* f64 arithmetic

\* sqrt of s (in squared quanta), rounded to the nearest quantum
Sqrt(s) ==
    CHOOSE k \in 0..s :
        /\ 4 * s < (2 * k + 1) * (2 * k + 1)
        /\ (k = 0 \/ (2 * k - 1) * (2 * k - 1) <= 4 * s)

\* f64::round for a non-negative value: nearest integer, ties away from zero
Round(v) == ((2 * v + Unit) \div (2 * Unit)) * Unit

euclidian(c1, c2) ==
    Sqrt((c2.lng - c1.lng) * (c2.lng - c1.lng) + (c2.lat - c1.lat) * (c2.lat - c1.lat))

\* utils::FloatCompare::approx_gt: a exceeds b by more than the epsilon
Epsilon == 1
approx_gt(a, b) == a - b > Epsilon

-----------------------------------------------------------------------------
\* usize subtraction

Underflows(a, b) == a < b

WrappingSub(a, b) == IF a >= b THEN a - b ELSE USIZE_MAX - (b - a) + 1

-----------------------------------------------------------------------------
\* DistanceMatrixBuilder

DistanceMatrixBuilder_new ==
    [locations |-> <<>>, precompute |-> FALSE, rounded |-> FALSE, max_distance |-> None]

Distance_NoRound(locations, rounded, i, j) ==
    euclidian(locations[i + 1], locations[j + 1])

\* the distance of locations i and j as build and the lazy get compute it
Distance(locations, rounded, i, j) ==
    LET distance_ == euclidian(locations[i + 1], locations[j + 1])
    IN IF rounded THEN Round(distance_) ELSE distance_

UpdateMax_FirstOnly(max_distance, distance_) ==
    IF max_distance.tag = "Some" THEN max_distance ELSE Some(distance_)

\* the match on self.max_distance in the inner loop of build
UpdateMax(max_distance, distance_) ==
    IF max_distance.tag = "Some"
    THEN IF approx_gt(distance_, max_distance.val) THEN Some(distance_) ELSE max_distance
    ELSE Some(distance_)

SetPair_Upper(matrix, i, j, distance_) == Matrix_set(matrix, i, j, distance_)

\* the two writes of one pair
SetPair(matrix, i, j, distance_) ==
    Matrix_set(Matrix_set(matrix, i, j, distance_), j, i, distance_)

\* the loops  for i in 0..n { for j in (i + 1)..n { ... } }  from (i, j) on
RECURSIVE BuildLoop(_, _, _, _)
BuildLoop(self, matrix, i, j) ==
    LET n == Len(self.locations) IN
    IF i >= n THEN [matrix |-> matrix, max_distance |-> self.max_distance]
    ELSE IF j >= n THEN BuildLoop(self, matrix, i + 1, i + 2)
    ELSE LET distance_ == Distance(self.locations, self.rounded, i, j)
         IN BuildLoop([self EXCEPT !.max_distance = UpdateMax(self.max_distance, distance_)],
                      SetPair(matrix, i, j, distance_), i, j + 1)

DistanceMatrix_new(locations, storage, precomputed, rounded, max_distance) ==
    [locations |-> locations, storage |-> storage, precomputed |-> precomputed,
     rounded |-> rounded, max_distance |-> max_distance]

build(self) ==
    LET n == Len(self.locations)
        r == IF self.precompute
             THEN BuildLoop(self, Matrix_new(n, n), 0, 1)
             ELSE [matrix |-> Matrix_new(0, 0), max_distance |-> self.max_distance]
    IN DistanceMatrix_new(self.locations, r.matrix, self.precompute, self.rounded,
                          r.max_distance)

-----------------------------------------------------------------------------
\* DistanceMatrix

size(self) == Len(self.locations)

max(self) == self.max_distance

DistanceMatrix_get_NoRound(self, row, col) ==
    IF self.precomputed
    THEN Matrix_get(self.storage, row, col)
    ELSE Distance_NoRound(self.locations, self.rounded, row, col)

DistanceMatrix_get(self, row, col) ==
    IF self.precomputed
    THEN Matrix_get(self.storage, row, col)
    ELSE Distance(self.locations, self.rounded, row, col)

NextCursor_NoRowAdvance(self, row_index, col_index) ==
    IF col_index < size(self) - 1
    THEN <<row_index, col_index + 1>>
    ELSE <<row_index, 0>>

\* the cursor step of the lazy get_vec: the column advances and, after column
\* size - 1, the cursor moves to column 0 of the next row
NextCursor(self, row_index, col_index) ==
    IF col_index < size(self) - 1
    THEN <<row_index, col_index + 1>>
    ELSE <<row_index + 1, 0>>

\* the lazy branch of get_vec: the cursor walk, `number` steps from the cursor
RECURSIVE CursorWalk(_, _, _, _)
CursorWalk(self, row_index, col_index, number) ==
    IF number = 0 THEN <<>>
    ELSE LET value == DistanceMatrix_get(self, row_index, col_index)
             cursor == NextCursor(self, row_index, col_index)
         IN <<value>> \o CursorWalk(self, cursor[1], cursor[2], number - 1)

get_vec(self, row, col, number) ==
    IF self.precomputed
    THEN Matrix_slice(self.storage, row, col, number)
    ELSE CursorWalk(self, row, col, number)

-----------------------------------------------------------------------------
\* CorrelationMatrix

IsCandidate_SelfOnly(i, j) == j # i

\* .filter(|&(j, _)| j > 0 && j != i)
IsCandidate(i, j) == j > 0 /\ j # i

\* the pairs (column index, distance) of row i that pass the filter, as the
\* set of their indices; vec is get_vec(i, 0, size)
Candidates(vec, i) == { j \in 0..(Len(vec) - 1) : IsCandidate(i, j) }

SortedBy_Unsorted(vec, cand) ==
    { s \in [1..Cardinality(cand) -> cand] :
        \A a, b \in 1..Cardinality(cand) : a # b => s[a] # s[b] }

\* .sorted_by(|a, b| a.1.partial_cmp(&b.1).unwrap()): every order of the
\* candidates that is ascending in the distance (the sort is not stable, so
\* the order of equal distances is any)
SortedBy(vec, cand) ==
    { s \in [1..Cardinality(cand) -> cand] :
        /\ \A a, b \in 1..Cardinality(cand) : a # b => s[a] # s[b]
        /\ \A a, b \in 1..Cardinality(cand) : a < b => vec[s[a] + 1] <= vec[s[b] + 1] }

Take_OneLess(s, width) == SubSeq(s, 1, Min(width, Len(s)) - (IF Len(s) > 1 THEN 1 ELSE 0))

\* .take(width)
Take(s, width) == SubSeq(s, 1, Min(width, Len(s)))

\* the index sequences row i can receive
RowChoices(distance_matrix, i, width) ==
    LET vec == get_vec(distance_matrix, i, 0, size(distance_matrix))
    IN { Take(s, width) : s \in SortedBy(vec, Candidates(vec, i)) }

\* .enumerate().for_each(|(number, index)| matrix.set(i, number, index))
RECURSIVE WriteRow(_, _, _, _)
WriteRow(matrix, i, row, number) ==
    IF number >= Len(row) THEN matrix
    ELSE WriteRow(Matrix_set(matrix, i, number, row[number + 1]), i, row, number + 1)

\* the loop  for i in 0..size  from row i on: every matrix it can end with
RECURSIVE CorrelationLoop(_, _, _, _)
CorrelationLoop(distance_matrix, matrix, i, width) ==
    IF i >= size(distance_matrix) THEN {matrix}
    ELSE UNION { CorrelationLoop(distance_matrix, WriteRow(matrix, i, row, 0), i + 1, width) :
                 row \in RowChoices(distance_matrix, i, width) }

\* CORRELATION_LIMIT.min(size - 2), where the subtraction does not panic
Width(n) == Min(CORRELATION_LIMIT, WrappingSub(n, 2))

\* CorrelationMatrix::new: the set of its outcomes, each a CorrelationMatrix
\* or the panic of the checked subtraction
Panic == [tag |-> "Panic"]

CorrelationMatrix_new(distance_matrix, checks) ==
    LET size_ == size(distance_matrix) IN
    IF checks /\ Underflows(size_, 2) THEN {Panic}
    ELSE LET width == Width(size_)
         IN { [tag |-> "Ok", storage |-> m, width |-> width] :
              m \in CorrelationLoop(distance_matrix, Matrix_new(size_, width), 0, width) }

CorrelationMatrix_slice(self, row, start, number) ==
    Matrix_slice(self.storage, row, start, number)

CorrelationMatrix_get(self, index) == CorrelationMatrix_slice(self, index, 0, self.width)

top_slice(self, index, number) == CorrelationMatrix_slice(self, index, 0, number)

-----------------------------------------------------------------------------
\* MatrixProvider

\* problem.nodes.len() - 1 < config.precompute_distance_size_limit as usize
Precompute(node_count, limit) == WrappingSub(node_count, 1) < limit

\* MatrixProvider::new: the set of its outcomes, each the pair of matrices or
\* the panic of a checked subtraction
MatrixProvider_new(problem_nodes, cfg, checks) ==
    IF checks /\ Underflows(Len(problem_nodes), 1) THEN {Panic}
    ELSE LET distance_ ==
                 build([DistanceMatrixBuilder_new EXCEPT
                            !.locations = problem_nodes,
                            !.precompute = Precompute(Len(problem_nodes), cfg.precompute_distance_size_limit),
                            !.rounded = cfg.round_distances])
         IN { IF c = Panic THEN Panic
              ELSE [tag |-> "Ok", distance |-> distance_, correlation |-> c] :
              c \in CorrelationMatrix_new(distance_, checks) }

-----------------------------------------------------------------------------
\* The construction steps as a state machine

Init ==
    /\ pc = "builder"
    /\ overflow_checks \in BOOLEAN
    /\ nodes \in LocationLists
    /\ builder = DistanceMatrixBuilder_new
    /\ distance = None
    /\ correlation = None
    /\ config = None
    /\ mat = Matrix_new(0, 0)
    /\ last_set = None
    /\ sets = 0

\* DistanceMatrixBuilder::locations
Locations ==
    /\ pc = "builder"
    /\ builder' = [builder EXCEPT !.locations = nodes]
    /\ UNCHANGED <<pc, overflow_checks, nodes, distance, correlation, config, mat, last_set, sets>>

\* DistanceMatrixBuilder::precompute
SetPrecompute ==
    /\ pc = "builder"
    /\ \E precompute \in BOOLEAN : builder' = [builder EXCEPT !.precompute = precompute]
    /\ UNCHANGED <<pc, overflow_checks, nodes, distance, correlation, config, mat, last_set, sets>>

\* DistanceMatrixBuilder::rounded
SetRounded ==
    /\ pc = "builder"
    /\ \E rounded \in BOOLEAN : builder' = [builder EXCEPT !.rounded = rounded]
    /\ UNCHANGED <<pc, overflow_checks, nodes, distance, correlation, config, mat, last_set, sets>>

\* DistanceMatrixBuilder::build
Build ==
    /\ pc = "builder"
    /\ distance' = build(builder)
    /\ pc' = "built"
    /\ UNCHANGED <<overflow_checks, nodes, builder, correlation, config, mat, last_set, sets>>

\* CorrelationMatrix::new on the DistanceMatrix that was built
CorrelationNew ==
    /\ pc = "built"
    /\ \E c \in CorrelationMatrix_new(distance, overflow_checks) :
          IF c = Panic
          THEN pc' = "panicked" /\ UNCHANGED correlation
          ELSE pc' = "correlated" /\ correlation' = [storage |-> c.storage, width |-> c.width]
    /\ UNCHANGED <<overflow_checks, nodes, builder, distance, config, mat, last_set, sets>>

Configs ==
    [precompute_distance_size_limit : 0..MaxLimit, round_distances : BOOLEAN]

\* MatrixProvider::new on the problem and a Config
ProviderNew ==
    /\ pc = "builder"
    /\ builder = DistanceMatrixBuilder_new
    /\ \E cfg \in Configs :
         /\ config' = cfg
         /\ \E p \in MatrixProvider_new(nodes, cfg, overflow_checks) :
              IF p = Panic
              THEN pc' = "panicked" /\ UNCHANGED <<distance, correlation>>
              ELSE /\ pc' = "provided"
                   /\ distance' = p.distance
                   /\ correlation' = [storage |-> p.correlation.storage,
                                      width |-> p.correlation.width]
    /\ UNCHANGED <<overflow_checks, nodes, builder, mat, last_set, sets>>

Next == Locations \/ SetPrecompute \/ SetRounded \/ Build \/ CorrelationNew \/ ProviderNew

Spec == Init /\ [][Next]_vars

\* The builder alone, under one build profile (build subtracts nothing)
InitBuild == Init /\ overflow_checks = TRUE

NextBuild == Locations \/ SetPrecompute \/ SetRounded \/ Build

BuildSpec == InitBuild /\ [][NextBuild]_vars

-----------------------------------------------------------------------------
\* The free-standing Matrix<usize> as a state machine

InitMatrix ==
    /\ pc = "matrix"
    /\ overflow_checks = TRUE
    /\ nodes = <<>>
    /\ builder = DistanceMatrixBuilder_new
    /\ distance = None
    /\ correlation = None
    /\ config = None
    /\ \E rows \in 1..MaxDim, cols \in 1..MaxDim :
          \/ mat = Matrix_new(rows, cols)
          \/ \E init \in 0..MaxVal : mat = Matrix_init(init, rows, cols)
    /\ last_set = None
    /\ sets = 0

\* Matrix::set at a valid position
MatrixSet ==
    /\ pc = "matrix"
    /\ sets < MaxSets
    /\ \E row \in 0..(mat.rows - 1), col \in 0..(mat.cols - 1), value \in 0..MaxVal :
         /\ mat' = Matrix_set(mat, row, col, value)
         /\ last_set' = [tag |-> "Some", row |-> row, col |-> col, value |-> value,
                         before |-> mat]
    /\ sets' = sets + 1
    /\ UNCHANGED <<pc, overflow_checks, nodes, builder, distance, correlation, config>>

NextMatrix == MatrixSet

MatrixSpec == InitMatrix /\ [][NextMatrix]_vars

-----------------------------------------------------------------------------
\* Vocabulary of the properties

\* DistanceMatrixBuilder::build has just returned `distance`
HasDistance == pc = "built"

HasCorrelation == pc \in {"correlated", "provided"}

Range(s) == { s[k] : k \in DOMAIN s }

Indices(dm) == 0..(size(dm) - 1)

\* the four points of the documented scenario
FourPoints ==
    << Coord(0, 0), Coord(0, 3 * Unit), Coord(4 * Unit, 0), Coord(4 * Unit, 3 * Unit) >>

\* the builder that build consumed to make dm, with the given precompute flag
BuilderOf(dm, precompute) ==
    [locations |-> dm.locations, precompute |-> precompute, rounded |-> dm.rounded,
     max_distance |-> None]

\* the distance matrix over the same locations and rounding, in the other mode
Twin(dm) == build(BuilderOf(dm, ~dm.precomputed))

\* the pairwise distances of dm over distinct indices
PairDistances(dm) ==
    { DistanceMatrix_get(dm, p[1], p[2]) :
      p \in { q \in Indices(dm) \X Indices(dm) : q[1] # q[2] } }

\* row is a list of `width` distinct members of pool, ascending in the distance
\* from i, and no member of pool left out is nearer to i than a member kept
NearestOf(dm, i, row, width, pool) ==
    /\ Len(row) = width
    /\ \A p \in 1..Len(row) : row[p] \in pool
    /\ \A p, q \in 1..Len(row) : p # q => row[p] # row[q]
    /\ \A p, q \in 1..Len(row) :
          p < q => DistanceMatrix_get(dm, i, row[p]) <= DistanceMatrix_get(dm, i, row[q])
    /\ \A k \in pool \ Range(row) : \A p \in 1..Len(row) :
          DistanceMatrix_get(dm, i, row[p]) <= DistanceMatrix_get(dm, i, k)

-----------------------------------------------------------------------------
\* C1 as stated: every row of the CorrelationMatrix over n >= 2 locations holds
\* the min(100, n-2) nodes nearest to i among all nodes other than i, in
\* ascending order of distance.
C1_NearestAmongAllOthers ==
    (HasCorrelation /\ size(distance) >= 2) =>
        \A i \in Indices(distance) :
            NearestOf(distance, i, CorrelationMatrix_get(correlation, i),
                      Min(CORRELATION_LIMIT, size(distance) - 2),
                      Indices(distance) \ {i})

\* C1 amended: every row i of the CorrelationMatrix over n >= 2 locations holds
\* the min(100, n-2) nodes nearest to i among all nodes other than i and other
\* than node 0, in ascending order of distance; for the four points (0,0),
\* (0,3), (4,0), (4,3) row 0 is node 1 then node 2.
C1_NearestAmongNonDepot ==
    (HasCorrelation /\ size(distance) >= 2) =>
        /\ \A i \in Indices(distance) :
              NearestOf(distance, i, CorrelationMatrix_get(correlation, i),
                        Min(CORRELATION_LIMIT, size(distance) - 2),
                        Indices(distance) \ {i, 0})
        /\ distance.locations = FourPoints =>
              CorrelationMatrix_get(correlation, 0) = <<1, 2>>

\* a row other than row 0 to which node 0 is strictly nearer than a node kept
C1_Witness ==
    /\ HasCorrelation
    /\ size(distance) = MaxN
    /\ \E i \in Indices(distance) \ {0} :
          \E p \in 1..correlation.width :
              DistanceMatrix_get(distance, i, 0) <
                  DistanceMatrix_get(distance, i, CorrelationMatrix_get(correlation, i)[p])

\* C2: width = min(100, n-2), and every row has exactly width entries, all
\* valid node indices, pairwise distinct, none equal to the row's own index,
\* with non-decreasing distances.
C2_RowShape ==
    (HasCorrelation /\ size(distance) >= 2) =>
        /\ correlation.width = Min(CORRELATION_LIMIT, size(distance) - 2)
        /\ correlation.storage.rows = size(distance)
        /\ correlation.storage.cols = correlation.width
        /\ \A i \in Indices(distance) :
              LET row == CorrelationMatrix_get(correlation, i) IN
              /\ Len(row) = correlation.width
              /\ \A p \in 1..Len(row) : row[p] \in Indices(distance) /\ row[p] # i
              /\ \A p, q \in 1..Len(row) : p # q => row[p] # row[q]
              /\ \A p \in 1..(Len(row) - 1) :
                    DistanceMatrix_get(distance, i, row[p]) <=
                        DistanceMatrix_get(distance, i, row[p + 1])

\* rows of two entries at least, built from distances that are not all equal
C2_Witness ==
    /\ HasCorrelation
    /\ size(distance) >= 4
    /\ correlation.width = size(distance) - 2
    /\ Cardinality(PairDistances(distance)) >= 3

\* C3: the eager and the lazy DistanceMatrix over the same locations and
\* rounding return equal get(i, j) for all i, j < n, the diagonal included.
C3_ModeEquivalence ==
    HasDistance =>
        LET eager == build(BuilderOf(distance, TRUE))
            lazy == build(BuilderOf(distance, FALSE))
        IN /\ eager.precomputed /\ ~lazy.precomputed
           /\ \A i, j \in Indices(distance) :
                 DistanceMatrix_get(eager, i, j) = DistanceMatrix_get(lazy, i, j)

\* a rounded matrix in which rounding changes a distance
C3_Witness ==
    /\ pc = "built"
    /\ distance.rounded
    /\ \E i, j \in Indices(distance) :
          /\ i # j
          /\ DistanceMatrix_get(distance, i, j) #
                 euclidian(distance.locations[i + 1], distance.locations[j + 1])

\* C4: get_vec(row, col, number) is the row-major walk of length number from
\* (row, col), the same in the precomputed and in the lazy matrix.
C4_GetVecIsRowMajorWalk ==
    (HasDistance /\ size(distance) >= 1) =>
        LET n == size(distance)
            twin == Twin(distance)
            cells == [k \in 1..(n * n) |->
                         DistanceMatrix_get(distance, (k - 1) \div n, (k - 1) % n)]
        IN
        \A row, col \in Indices(distance) :
            \A number \in 0..(n * n - (row * n + col)) :
                LET walk == [k \in 1..number |-> cells[row * n + col + k]]
                IN /\ get_vec(distance, row, col, number) = walk
                   /\ get_vec(twin, row, col, number) = walk

\* a lazy matrix over several distinct locations, whose walks cross rows
C4_Witness ==
    /\ pc = "built"
    /\ ~distance.precomputed
    /\ size(distance) >= 3
    /\ Cardinality(PairDistances(distance)) >= 3
    /\ Len(get_vec(distance, 0, 1, 2 * size(distance))) = 2 * size(distance)

\* C5 as stated: after build, max() is the maximum of get(i, j) over i # j when
\* precomputed with at least 2 locations, and None otherwise.
C5_MaxIsTrueMaximum ==
    HasDistance =>
        IF distance.precomputed /\ size(distance) >= 2
        THEN /\ max(distance).tag = "Some"
             /\ max(distance).val \in PairDistances(distance)
             /\ \A d \in PairDistances(distance) : d <= max(distance).val
        ELSE max(distance) = None

\* C5 amended: after build, when precomputed with at least 2 locations max()
\* is one of the distances get(i, j), i # j, and no such distance exceeds it by
\* more than the tolerance of approx_gt; max() is None when not precomputed or
\* with fewer than 2 locations; for the four documented points max() is 5.0.
C5_MaxWithinTolerance ==
    HasDistance =>
        /\ IF distance.precomputed /\ size(distance) >= 2
           THEN /\ max(distance).tag = "Some"
                /\ max(distance).val \in PairDistances(distance)
                /\ \A d \in PairDistances(distance) : ~approx_gt(d, max(distance).val)
           ELSE max(distance) = None
        /\ (distance.precomputed /\ distance.locations = FourPoints) =>
              max(distance) = Some(5 * Unit)

\* a precomputed matrix whose largest distance is not the first pair's
C5_Witness ==
    /\ pc = "built"
    /\ distance.precomputed
    /\ size(distance) >= 3
    /\ max(distance).val # DistanceMatrix_get(distance, 0, 1)
    /\ \E d \in PairDistances(distance) : d > max(distance).val

\* C6: a precomputed matrix is n x n and symmetric, and every diagonal entry is
\* the zero of the zero-initialised buffer.
C6_SymmetricZeroDiagonal ==
    (HasDistance /\ distance.precomputed) =>
        /\ distance.storage.rows = size(distance)
        /\ distance.storage.cols = size(distance)
        /\ \A i, j \in Indices(distance) :
              DistanceMatrix_get(distance, i, j) = DistanceMatrix_get(distance, j, i)
        /\ \A i \in Indices(distance) : DistanceMatrix_get(distance, i, i) = 0
        /\ \A i, j \in Indices(distance) :
              i # j => DistanceMatrix_get(distance, i, j) =
                           Distance(distance.locations, distance.rounded, i, j)

\* a precomputed matrix with a non-zero entry below the diagonal
C6_Witness ==
    /\ pc = "built"
    /\ distance.precomputed
    /\ size(distance) >= 3
    /\ DistanceMatrix_get(distance, 2, 0) > 0
    /\ DistanceMatrix_get(distance, 2, 0) # DistanceMatrix_get(distance, 2, 1)

\* C7 as stated: MatrixProvider::new builds the DistanceMatrix eagerly (n x n
\* storage, max() populated) exactly when node_count - 1 < limit and lazily
\* (zero-size storage, max() None) otherwise, over the nodes' coordinates and
\* with the configured rounding, and derives the CorrelationMatrix from it.
C7_ProviderStrategy ==
    pc = "provided" =>
        /\ Len(nodes) >= 1 =>
              (distance.precomputed <=>
                   (Len(nodes) - 1 < config.precompute_distance_size_limit))
        /\ distance.precomputed =>
              /\ distance.storage.rows = Len(nodes)
              /\ distance.storage.cols = Len(nodes)
              /\ max(distance) # None
        /\ ~distance.precomputed =>
              /\ distance.storage.rows * distance.storage.cols = 0
              /\ max(distance) = None
        /\ distance.locations = nodes
        /\ distance.rounded = config.round_distances
        /\ [tag |-> "Ok", storage |-> correlation.storage, width |-> correlation.width]
              \in CorrelationMatrix_new(distance, overflow_checks)

\* C7 for problems of at least 2 nodes, where construction never underflows
C7_ProviderStrategy_FromTwo ==
    Len(nodes) >= 2 => C7_ProviderStrategy

\* C8: set(row, col, v) followed by get(row, col) returns v, the cell written
\* is the one at offset row*cols + col, and get at every other valid position
\* returns what it returned before.
C8_SetThenGet ==
    (pc = "matrix" /\ last_set # None) =>
        /\ Matrix_get(mat, last_set.row, last_set.col) = last_set.value
        /\ mat.cells[last_set.row * mat.cols + last_set.col + 1] = last_set.value
        /\ Len(mat.cells) = mat.rows * mat.cols
        /\ \A row \in 0..(mat.rows - 1), col \in 0..(mat.cols - 1) :
              (row # last_set.row \/ col # last_set.col) =>
                  Matrix_get(mat, row, col) = Matrix_get(last_set.before, row, col)

\* a set that changed a cell of a matrix with several rows and columns
C8_Witness ==
    /\ pc = "matrix"
    /\ last_set # None
    /\ mat.rows >= 2
    /\ mat.cols >= 2
    /\ last_set.row >= 1
    /\ last_set.col >= 1
    /\ mat # last_set.before

\* C9: for fewer than 2 locations CorrelationMatrix::new hands back no
\* CorrelationMatrix with candidate rows.
C9_NoCorrelationBelowTwo ==
    (HasCorrelation /\ size(distance) < 2) => correlation.storage.rows = 0

\* C10: node 0 is in no row; the filter leaves n - 2 candidates for a row
\* i # 0, all of them stored when n - 2 <= 100, and n - 1 for row 0.
C10_DepotNeverCandidate ==
    (HasCorrelation /\ size(distance) >= 2) =>
        \A i \in Indices(distance) :
            LET n == size(distance)
                row == CorrelationMatrix_get(correlation, i)
                cand == Candidates(get_vec(distance, i, 0, n), i)
            IN /\ 0 \notin Range(row)
               /\ Cardinality(cand) = IF i = 0 THEN n - 1 ELSE n - 2
               /\ (i # 0 /\ n - 2 <= CORRELATION_LIMIT) =>
                     Range(row) = Indices(distance) \ {0, i}
               /\ Range(row) \subseteq Indices(distance) \ {0, i}

\* a row other than row 0 whose nearest node is node 0
C10_Witness ==
    /\ HasCorrelation
    /\ size(distance) >= 3
    /\ \E i \in Indices(distance) \ {0} :
          \A k \in Indices(distance) \ {0, i} :
              DistanceMatrix_get(distance, i, 0) < DistanceMatrix_get(distance, i, k)

====
